---- MODULE Spec2Model ----
(***************************************************************************)
(* GLIFExperiment (allen_wrench/model/GLIF/experiment.py): the harness     *)
(* that maps a flat parameter vector onto the attributes of a neuron model *)
(* and drives one simulation per stimulus sweep.                           *)
(*                                                                         *)
(* Python values are modelled as follows.  A neuron attribute is a record  *)
(* [vec, val]: vec is the outcome of hasattr(a, "__len__"), val holds the  *)
(* elements (one element for a scalar).  Sequences are 1-based here, the   *)
(* cursor `index` and `stim_list_index` stay 0-based as in the code.  The  *)
(* simulator is an external, deterministic collaborator: its result is the *)
(* free term built from the entry point, its arguments and the attribute   *)
(* values it reads, so that two results are equal only if all of these are.*)
(***************************************************************************)
EXTENDS Integers, Sequences, FiniteSets, TLC

\* ---------------------------------------------------------------- bounds
MaxNames  == 2   \* longest fit_names_list
MaxVecLen == 2   \* longest vector-valued attribute at construction
MaxGuess  == 3   \* longest param_guess
MaxSweeps == 2   \* most sweeps in the dataset

\* ------------------------------------------------------ program constants
FIT_PARAMETERS ==
  {"coeff_th", "coeff_C", "coeff_G", "coeff_a", "coeff_b", "coeff_a_vector"}

\* names a caller may put in fit_names_list: allowed ones and one that is not
NamePool == {"coeff_th", "coeff_a", "coeff_a_vector", "coeff_x"}

\* the parameter vectors a caller passes: the harness copies the values and
\* never inspects them, so each slot carries its own 1-based position and a
\* value is found in an attribute only if that very slot was copied there
Guesses == {[i \in 1..L |-> i] : L \in 0..MaxGuess}

\* the stimulus lists of the dataset: n sweeps, all different or all alike
StimLists == {[i \in 1..n |-> IF alike THEN 1 ELSE i] : n \in 0..MaxSweeps, alike \in BOOLEAN}

RUN_CHANNELS  == 11
BASE_CHANNELS == 8

VARIABLES
  self,            \* the fields __init__ stores, other than neuron
  neuron,          \* self.neuron: attribute name -> value
  pc,              \* position of the single thread of control
  mode,            \* the method the caller invoked
  param_guess,     \* argument of the call in progress
  index,           \* cursor of set_neuron_parameters
  pos,             \* 1-based position of the for loop in fit_names_list
  stim_list_index, \* loop variable of the sweep loop
  lists,           \* the local output lists of run / run_base_model
  outcome,         \* how the last call ended: value returned or exception
  pre,             \* history: neuron at entry of the call
  simCalls,        \* history: simulator invocations of the call, in order
  prev             \* history: the run call that returned just before, if
                   \* the call in progress repeats its param_guess

vars == <<self, neuron, pc, mode, param_guess, index, pos, stim_list_index,
          lists, outcome, pre, simCalls, prev>>

\* ---------------------------------------------------------------- helpers
Min(a, b) == IF a < b THEN a ELSE b

SeqsUpTo(S, n) == UNION {[1..k -> S] : k \in 0..n}

Scalar(x) == [vec |-> FALSE, val |-> <<x>>]
Vector(s) == [vec |-> TRUE, val |-> s]

\* Python s[lo:hi] for 0 <= lo <= hi: clipped to the sequence, never raises
Slice(s, lo, hi) == SubSeq(s, lo + 1, Min(hi, Len(s)))

\* seeded fault, for sensitivity of the properties: the last element counts as out of range
InRange_OffByOne(s, i) == i + 1 < Len(s)

\* Python s[i] for i >= 0 raises IndexError when i >= len(s)
InRange(s, i) == i < Len(s)
Item(s, i) == s[i + 1]

None == [kind |-> "none"]
Returned(v) == [kind |-> "returned", value |-> v]
Raised(e) == [kind |-> "raised", error |-> e]

\* ------------------------------------------------------------- simulator
\* seeded fault, for sensitivity of the properties: the eligibility mask and the target spike indices change places
SimArgsTarget_MaskFirst(s, i) ==
  <<s.init_voltage, s.init_threshold, s.init_AScurrents,
    s.stim_list[i + 1], s.target_spike_mask[i + 1],
    s.grid_spike_index_target_list[i + 1],
    s.interpolated_spike_time_target_list[i + 1]>>

\* lines 76-78: the arguments of run_wrt_target_spike_train for sweep i
SimArgsTarget(s, i) ==
  <<s.init_voltage, s.init_threshold, s.init_AScurrents,
    Item(s.stim_list, i), Item(s.grid_spike_index_target_list, i),
    Item(s.target_spike_mask, i),
    Item(s.interpolated_spike_time_target_list, i)>>

\* line 133: the arguments of neuron.run for sweep i
SimArgsBase(s, i) ==
  <<s.init_voltage, s.init_threshold, s.init_AScurrents,
    Item(s.stim_list, i)>>

SimCall(fn, args, attrs) == [fn |-> fn, args |-> args, attrs |-> attrs]

\* component k of the tuple the simulator returns for a call
SimOut(call, k) == [ch |-> k, of |-> call]

\* ---------------------------------------------------------- construction
InitialNeuron(lenA, lenV) ==
  [n \in FIT_PARAMETERS |->
     IF n = "coeff_a_vector" THEN Vector([j \in 1..lenV |-> 0])
     ELSE IF n = "coeff_a" /\ lenA >= 0 THEN Vector([j \in 1..lenA |-> 0])
     ELSE Scalar(0)]

Dataset(stims, names) ==
  [stim_list                           |-> stims,
   grid_spike_index_target_list        |-> [i \in 1..Len(stims) |-> 10 + i],
   grid_spike_time_target_list         |-> [i \in 1..Len(stims) |-> 40 + i],
   interpolated_spike_time_target_list |-> [i \in 1..Len(stims) |-> 30 + i],
   target_spike_mask                   |-> [i \in 1..Len(stims) |-> 20 + i],
   init_voltage                        |-> 51,
   init_threshold                      |-> 52,
   init_AScurrents                     |-> 53,
   dt                                  |-> 1,
   fit_names_list                      |-> names]

EmptyLists == [k \in 1..RUN_CHANNELS |-> <<>>]

Init ==
  /\ \E stims \in StimLists, names \in SeqsUpTo(NamePool, MaxNames) :
       self = Dataset(stims, names)
  /\ \E lenA \in {-1, 1}, lenV \in 0..MaxVecLen :
       neuron = InitialNeuron(lenA, lenV)
  /\ pc = "idle"
  /\ mode = "none"
  /\ param_guess = <<>>
  /\ index = 0
  /\ pos = 1
  /\ stim_list_index = 0
  /\ lists = EmptyLists
  /\ outcome = None
  /\ pre = neuron
  /\ simCalls = <<>>
  /\ prev = None

\* ------------------------------------------------- set_neuron_parameters
\* seeded fault, for sensitivity of the properties: only the first name is checked against the allow-list
AnyNotAllowed_FirstOnly(names) == Len(names) > 0 /\ names[1] \notin FIT_PARAMETERS

\* line 153: any([param not in FIT_PARAMETERS for param in fit_names_list])
AnyNotAllowed(names) == \E p \in 1..Len(names) : names[p] \notin FIT_PARAMETERS

\* seeded fault, for sensitivity of the properties: a vector is sliced from the start of param_guess, not from the cursor
Assigned_FromStart(a, guess, idx) ==
  IF a.vec THEN Vector(SubSeq(guess, 1, IF Len(a.val) < Len(guess) THEN Len(a.val) ELSE Len(guess)))
  ELSE Scalar(guess[idx + 1])

\* lines 161-167: the value assigned to the attribute for the current name
Assigned(a, guess, idx) ==
  IF a.vec THEN Vector(Slice(guess, idx, idx + Len(a.val)))
  ELSE Scalar(Item(guess, idx))

\* seeded fault, for sensitivity of the properties: the cursor advances by one whatever the attribute's length
Advance_ByOne(a, idx) == idx + 1

\* lines 164, 167: the cursor after the current name
Advance(a, idx) == IF a.vec THEN idx + Len(a.val) ELSE idx + 1

\* the caller invokes one of the three public methods with a param_guess
Call(m, g) ==
  /\ pc = "idle"
  /\ mode' = m
  /\ param_guess' = g
  /\ pre' = neuron
  /\ simCalls' = <<>>
  /\ lists' = EmptyLists
  /\ stim_list_index' = 0
  /\ index' = 0
  /\ pos' = 1
  /\ prev' = IF /\ m = "run" /\ mode = "run"
                /\ outcome.kind = "returned" /\ param_guess = g
             THEN [bundle |-> outcome.value, neuron |-> neuron]
             ELSE None
  /\ IF AnyNotAllowed(self.fit_names_list)
     THEN /\ pc' = "idle"
          /\ outcome' = Raised("not_allowed")
     ELSE /\ pc' = "map"
          /\ outcome' = None
  /\ UNCHANGED <<self, neuron>>

CallRun == \E g \in Guesses : Call("run", g)
CallRunBaseModel == \E g \in Guesses : Call("run_base_model", g)
CallSetNeuronParameters ==
  \E g \in Guesses : Call("set_neuron_parameters", g)

\* lines 158-167: the body of the loop for one name, from the attribute
\* values attrs and the cursor idx.  getattr raises AttributeError for an
\* attribute the model lacks; param_guess[index] raises IndexError past the
\* end, while the slice of line 163 is clipped and never raises.
MapOne(attrs, idx, fit_name, guess) ==
  IF fit_name \notin DOMAIN attrs
  THEN [ok |-> FALSE, error |-> "AttributeError", neuron |-> attrs, index |-> idx]
  ELSE LET a == attrs[fit_name]
       IN IF a.vec \/ InRange(guess, idx)
          THEN [ok |-> TRUE, error |-> "",
                neuron |-> [attrs EXCEPT ![fit_name] = Assigned(a, guess, idx)],
                index |-> Advance(a, idx)]
          ELSE [ok |-> FALSE, error |-> "IndexError", neuron |-> attrs, index |-> idx]

\* lines 156-167: the whole loop from position p on
RECURSIVE MapFrom(_, _, _, _, _)
MapFrom(names, guess, p, attrs, idx) ==
  IF p > Len(names)
  THEN [ok |-> TRUE, error |-> "", neuron |-> attrs, index |-> idx]
  ELSE LET r == MapOne(attrs, idx, names[p], guess)
       IN IF r.ok THEN MapFrom(names, guess, p + 1, r.neuron, r.index) ELSE r

\* lines 153-167: set_neuron_parameters as a function of its inputs
ApplyMapping(names, guess, attrs) ==
  IF AnyNotAllowed(names)
  THEN [ok |-> FALSE, error |-> "not_allowed", neuron |-> attrs, index |-> 0]
  ELSE MapFrom(names, guess, 1, attrs, 0)

\* one iteration of the loop of lines 157-167
MapStep ==
  /\ pc = "map"
  /\ pos <= Len(self.fit_names_list)
  /\ LET r == MapOne(neuron, index, self.fit_names_list[pos], param_guess)
     IN IF r.ok
        THEN /\ neuron' = r.neuron
             /\ index' = r.index
             /\ pos' = pos + 1
             /\ UNCHANGED <<pc, outcome>>
        ELSE /\ pc' = "idle"
             /\ outcome' = Raised(r.error)
             /\ UNCHANGED <<neuron, index, pos>>
  /\ UNCHANGED <<self, mode, param_guess, stim_list_index, lists, pre, simCalls, prev>>

\* the loop of lines 157-167 is exhausted: set_neuron_parameters returns
MapDone ==
  /\ pc = "map"
  /\ pos > Len(self.fit_names_list)
  /\ IF mode = "set_neuron_parameters"
     THEN /\ pc' = "idle"
          /\ outcome' = Returned(<<>>)
     ELSE /\ pc' = "sweep"
          /\ UNCHANGED outcome
  /\ UNCHANGED <<self, neuron, mode, param_guess, index, pos, stim_list_index,
                 lists, pre, simCalls, prev>>

\* ------------------------------------------------------------ sweep loops
\* seeded fault, for sensitivity of the properties: the loop stops one sweep early
SweepsLeft_SkipLast(s, i) == i + 1 < Len(s.stim_list)

\* range(0, len(stim_list)) / xrange(len(stim_list))
SweepsLeft(s, i) == i < Len(s.stim_list)

\* seeded fault, for sensitivity of the properties: the lists follow the order of the append statements, where the
\* interpolated time comes before the grid time
RunChannel_AppendOrder(k) == IF k = 4 THEN 5 ELSE IF k = 5 THEN 4 ELSE k

\* lines 80-91: which component of the simulator's tuple each of the eleven
\* lists of run (numbered in the order of the return statement) receives
RunChannel(k) == k

\* seeded fault, for sensitivity of the properties: the eighth list receives the interpolated spike threshold
BaseChannel_Threshold(k) == k

\* lines 135-142: the same for the eight lists of run_base_model
BaseChannel(k) == IF k = 8 THEN 7 ELSE k

\* what one iteration appends, list by list in the order of the return statement
RunRow(call) == [k \in 1..RUN_CHANNELS |-> SimOut(call, RunChannel(k))]
BaseRow(call) == [k \in 1..BASE_CHANNELS |-> SimOut(call, BaseChannel(k))]

\* the append statements of one iteration
AppendRow(ls, row) ==
  [k \in 1..RUN_CHANNELS |-> IF k <= Len(row) THEN Append(ls[k], row[k]) ELSE ls[k]]

\* lines 73-91: one iteration of the sweep loop of run
RunSweep ==
  /\ pc = "sweep"
  /\ mode = "run"
  /\ SweepsLeft(self, stim_list_index)
  /\ LET call == SimCall("run_wrt_target_spike_train",
                         SimArgsTarget(self, stim_list_index), neuron)
     IN /\ simCalls' = Append(simCalls, call)
        /\ lists' = AppendRow(lists, RunRow(call))
  /\ stim_list_index' = stim_list_index + 1
  /\ UNCHANGED <<self, neuron, pc, mode, param_guess, index, pos, outcome, pre, prev>>

\* lines 131-142: one iteration of the sweep loop of run_base_model
RunBaseSweep ==
  /\ pc = "sweep"
  /\ mode = "run_base_model"
  /\ SweepsLeft(self, stim_list_index)
  /\ LET call == SimCall("run", SimArgsBase(self, stim_list_index), neuron)
     IN /\ simCalls' = Append(simCalls, call)
        /\ lists' = AppendRow(lists, BaseRow(call))
  /\ stim_list_index' = stim_list_index + 1
  /\ UNCHANGED <<self, neuron, pc, mode, param_guess, index, pos, outcome, pre, prev>>

\* the tuple of lists a return statement hands back
Bundle(ls, n) == [k \in 1..n |-> ls[k]]

\* line 93 / lines 145-146
Return ==
  /\ pc = "sweep"
  /\ ~SweepsLeft(self, stim_list_index)
  /\ pc' = "idle"
  /\ outcome' = Returned(Bundle(lists, IF mode = "run" THEN RUN_CHANNELS ELSE BASE_CHANNELS))
  /\ UNCHANGED <<self, neuron, mode, param_guess, index, pos, stim_list_index,
                 lists, pre, simCalls, prev>>

Next ==
  \/ CallRun
  \/ CallRunBaseModel
  \/ CallSetNeuronParameters
  \/ MapStep
  \/ MapDone
  \/ RunSweep
  \/ RunBaseSweep
  \/ Return

Spec == Init /\ [][Next]_vars

\* ------------------------------------------------ vocabulary of the claims
\* the fit_names_list names only fittable attributes
ValidNames == \A p \in 1..Len(self.fit_names_list) : self.fit_names_list[p] \in FIT_PARAMETERS

\* slots an attribute takes in the parameter vector: scalar 1, vector its length
Slots(attrs, n) == IF attrs[n].vec THEN Len(attrs[n].val) ELSE 1

RECURSIVE SlotsBefore(_, _, _)
SlotsBefore(attrs, names, p) ==
  IF p <= 1 THEN 0
  ELSE SlotsBefore(attrs, names, p - 1) + Slots(attrs, names[p - 1])

Required(attrs, names) == SlotsBefore(attrs, names, Len(names) + 1)

\* the slice of guess that belongs to position p of names, as an attribute value
SliceOf(attrs, names, guess, p) ==
  LET off == SlotsBefore(attrs, names, p)
  IN IF attrs[names[p]].vec
     THEN Vector(SubSeq(guess, off + 1, off + Slots(attrs, names[p])))
     ELSE Scalar(guess[off + 1])

LastOccurrence(names, p) == \A q \in (p + 1)..Len(names) : names[q] # names[p]

\* set_neuron_parameters has run to completion in the call in progress or last ended
MappingDone ==
  /\ mode # "none"
  /\ \/ pc = "sweep"
     \/ pc = "idle" /\ outcome.kind = "returned"

ExactGuess == Len(param_guess) = Required(pre, self.fit_names_list)

\* C1: whenever fit_names_list holds a name outside FIT_PARAMETERS, at any
\* position, every call ends at once with the "not allowed" exception, every
\* attribute of the model keeps the value it had before the call and the
\* simulator is never invoked.
C1_NotAllowedAborts ==
  (\E p \in 1..Len(self.fit_names_list) : self.fit_names_list[p] \notin FIT_PARAMETERS)
    => /\ pc = "idle"
       /\ neuron = pre
       /\ simCalls = <<>>
       /\ mode # "none" => outcome = Raised("not_allowed")

C1_Witness ==
  /\ Len(self.fit_names_list) = 2
  /\ self.fit_names_list[1] \in FIT_PARAMETERS
  /\ self.fit_names_list[2] \notin FIT_PARAMETERS
  /\ mode = "run"
  /\ Len(param_guess) > 0
  /\ Len(self.stim_list) > 0
  /\ outcome = Raised("not_allowed")

\* C2 as stated: with valid names and a param_guess of exactly the required
\* length, after set_neuron_parameters the attribute named at every position
\* of fit_names_list holds the slice of param_guess that starts at the sum of
\* the slot counts of the names before that position.
C2_EveryPositionHoldsItsSlice ==
  (MappingDone /\ ValidNames /\ ExactGuess)
    => \A p \in 1..Len(self.fit_names_list) :
         neuron[self.fit_names_list[p]] = SliceOf(pre, self.fit_names_list, param_guess, p)

\* C2 amended: with valid names and a param_guess of exactly the required
\* length, after set_neuron_parameters every named attribute holds the slice
\* of param_guess that belongs to the last position at which it is named (for
\* a name that occurs once, the slice starting at the sum of the slot counts
\* of the names before it).
C2_LastPositionHoldsItsSlice ==
  (MappingDone /\ ValidNames /\ ExactGuess)
    => \A p \in 1..Len(self.fit_names_list) :
         LastOccurrence(self.fit_names_list, p)
           => neuron[self.fit_names_list[p]] = SliceOf(pre, self.fit_names_list, param_guess, p)

C2_Witness ==
  /\ MappingDone
  /\ self.fit_names_list = <<"coeff_th", "coeff_a_vector">>
  /\ Len(pre["coeff_a_vector"].val) = 2
  /\ param_guess = <<1, 2, 3>>
  /\ neuron["coeff_th"] = Scalar(1)
  /\ neuron["coeff_a_vector"] = Vector(<<2, 3>>)

\* fit_names_list with the entries at positions i and j exchanged
SwapNames(names, i, j) ==
  [p \in 1..Len(names) |-> IF p = i THEN names[j] ELSE IF p = j THEN names[i] ELSE names[p]]

\* param_guess with the slices of positions i and j exchanged accordingly
RECURSIVE SwapGuessUpTo(_, _, _, _, _, _)
SwapGuessUpTo(attrs, names, guess, i, j, p) ==
  IF p = 0 THEN <<>>
  ELSE LET src == IF p = i THEN j ELSE IF p = j THEN i ELSE p
       IN SwapGuessUpTo(attrs, names, guess, i, j, p - 1)
            \o SliceOf(attrs, names, guess, src).val

SwapGuess(attrs, names, guess, i, j) == SwapGuessUpTo(attrs, names, guess, i, j, Len(names))

SwapAgrees(i, j) ==
  LET r == ApplyMapping(SwapNames(self.fit_names_list, i, j),
                        SwapGuess(pre, self.fit_names_list, param_guess, i, j), pre)
  IN r.ok /\ r.neuron = neuron

\* C3 as stated: with valid names and a matching param_guess, exchanging any
\* two entries of fit_names_list together with their slices of param_guess
\* gives, from the same initial model, the final attribute values of the
\* unswapped call.
C3_SwapAnyTwoEntries ==
  (MappingDone /\ ValidNames /\ ExactGuess)
    => \A i, j \in 1..Len(self.fit_names_list) : i < j => SwapAgrees(i, j)

\* C3 amended: the same, for a fit_names_list in which no name is repeated.
C3_SwapWithoutRepeatedNames ==
  (/\ MappingDone /\ ValidNames /\ ExactGuess
   /\ \A p, q \in 1..Len(self.fit_names_list) :
        p # q => self.fit_names_list[p] # self.fit_names_list[q])
    => \A i, j \in 1..Len(self.fit_names_list) : i < j => SwapAgrees(i, j)

C3_Witness ==
  /\ MappingDone
  /\ self.fit_names_list = <<"coeff_a_vector", "coeff_th">>
  /\ Len(pre["coeff_a_vector"].val) = 2
  /\ param_guess = <<1, 2, 3>>
  /\ neuron["coeff_th"] = Scalar(3)
  /\ neuron["coeff_a_vector"] = Vector(<<1, 2>>)
  /\ SwapGuess(pre, self.fit_names_list, param_guess, 1, 2) = <<3, 1, 2>>

\* a call of run / run_base_model has just returned its tuple of lists
RunReturned == pc = "idle" /\ mode = "run" /\ outcome.kind = "returned"
BaseReturned == pc = "idle" /\ mode = "run_base_model" /\ outcome.kind = "returned"

\* the simulator invocation number i of the call was made for sweep i
ForSweep(i) ==
  /\ simCalls[i].args[4] = self.stim_list[i]
  /\ simCalls[i].fn = "run_wrt_target_spike_train"
       => simCalls[i].args[5] = self.grid_spike_index_target_list[i]

\* C4: run returns 11 lists and run_base_model 8 lists, each with one entry
\* per sweep; entry i of every list comes from the simulator call made for
\* sweep i, and for run entry i of list k is component k of that call's result.
C4_OneEntryPerSweepInOrder ==
  /\ RunReturned =>
       /\ Len(outcome.value) = 11
       /\ Len(simCalls) = Len(self.stim_list)
       /\ \A k \in 1..11 :
            /\ Len(outcome.value[k]) = Len(self.stim_list)
            /\ \A i \in 1..Len(self.stim_list) :
                 /\ ForSweep(i)
                 /\ outcome.value[k][i] = SimOut(simCalls[i], k)
  /\ BaseReturned =>
       /\ Len(outcome.value) = 8
       /\ Len(simCalls) = Len(self.stim_list)
       /\ \A k \in 1..8 :
            /\ Len(outcome.value[k]) = Len(self.stim_list)
            /\ \A i \in 1..Len(self.stim_list) :
                 /\ ForSweep(i)
                 /\ outcome.value[k][i].of = simCalls[i]

C4_Witness ==
  /\ RunReturned
  /\ self.stim_list = <<1, 1>>
  /\ Len(outcome.value[11]) = 2
  /\ outcome.value[4][1] # outcome.value[4][2]

\* C5: a run call that returns right after a run call with the same
\* param_guess returns the same tuple of lists and leaves the model's
\* attributes as the first call left them.
C5_RepeatedRunAgrees ==
  (pc = "idle" /\ prev # None)
    => /\ outcome.kind = "returned"
       /\ outcome.value = prev.bundle
       /\ neuron = prev.neuron

\* C6: when set_neuron_parameters fails, no attribute of the model has been
\* changed: no call fails after an earlier name of fit_names_list was assigned.
C6_FailureLeavesModelUntouched == outcome.kind = "raised" => neuron = pre

ExpectedArgs(i) ==
  IF mode = "run"
  THEN <<self.init_voltage, self.init_threshold, self.init_AScurrents,
         self.stim_list[i], self.grid_spike_index_target_list[i],
         self.target_spike_mask[i], self.interpolated_spike_time_target_list[i]>>
  ELSE <<self.init_voltage, self.init_threshold, self.init_AScurrents,
         self.stim_list[i]>>

\* C8: every simulator invocation of run and of run_base_model receives the
\* runner's fixed initial triple followed by the inputs of its own sweep, in
\* the order of the signature, and no step of the harness assigns a field of
\* the runner.
C8_FixedInitialStateAndOwnInputs ==
  [][/\ self' = self
     /\ \A i \in 1..Len(simCalls') :
          /\ simCalls'[i].args = ExpectedArgs(i)'
          /\ simCalls'[i].fn = (IF mode' = "run" THEN "run_wrt_target_spike_train" ELSE "run")]_vars

C8_Witness ==
  /\ mode = "run"
  /\ self.stim_list = <<1, 2>>
  /\ Len(simCalls) = 2
  /\ simCalls[2].args = <<51, 52, 53, 2, 12, 22, 32>>

\* C9: in the tuple run_base_model returns, lists 1 to 7 hold components 1 to
\* 7 of the simulator's result for each sweep, and list 8 holds component 7
\* (the interpolated spike voltage), not component 8 (the threshold).
C9_ThresholdChannelHoldsVoltage ==
  BaseReturned =>
    \A i \in 1..Len(self.stim_list) :
      /\ \A k \in 1..7 : outcome.value[k][i] = SimOut(simCalls[i], k)
      /\ outcome.value[8][i] = SimOut(simCalls[i], 7)
      /\ outcome.value[8][i] # SimOut(simCalls[i], 8)

C9_Witness ==
  /\ BaseReturned
  /\ Len(self.stim_list) = 2
  /\ outcome.value[8] = outcome.value[7]
  /\ Len(outcome.value[8]) = 2

\* C10: within a call of run or run_base_model the mapping loop has run
\* through the whole of fit_names_list before the first simulator invocation;
\* invocations are appended one at a time, the one for sweep i when i sweeps
\* are done; no step that follows an invocation assigns a model attribute, so
\* every invocation reads the attribute values the model still has; and the
\* call returns after exactly one invocation per sweep.
C10_MapThenSweepsInOrder ==
  [][/\ simCalls' # simCalls /\ simCalls' # <<>> =>
          /\ pc = "sweep"
          /\ pos = Len(self.fit_names_list) + 1
          /\ neuron = MapFrom(self.fit_names_list, param_guess, 1, pre, 0).neuron
          /\ Len(simCalls) = stim_list_index
          /\ \E c \in {simCalls'[Len(simCalls')]} :
               /\ simCalls' = Append(simCalls, c)
               /\ c.args[4] = self.stim_list[stim_list_index + 1]
               /\ c.attrs = neuron
          /\ stim_list_index' = stim_list_index + 1
     /\ simCalls # <<>> /\ simCalls' # <<>> => neuron' = neuron
     /\ \A i \in 1..Len(simCalls') : simCalls'[i].attrs = neuron'
     /\ (pc = "sweep" /\ pc' = "idle") =>
          /\ outcome'.kind = "returned"
          /\ Len(simCalls') = Len(self.stim_list)]_vars

C10_Witness ==
  /\ pc = "sweep"
  /\ mode = "run_base_model"
  /\ Len(self.fit_names_list) = 2
  /\ neuron # pre
  /\ self.stim_list = <<1, 2>>
  /\ Len(simCalls) = 2

====
